---- MODULE Spec2Model ----
(***************************************************************************)
(* A model of streamlit_app.py: the catalog frame books_df, the title      *)
(* resolver search_books_streamlit, the neighbour fusion                   *)
(* fuse_neighbors_streamlit and the script main() that Streamlit reruns    *)
(* on every interaction.                                                   *)
(*                                                                         *)
(* Text is a sequence of one-character strings.  A data frame is a record  *)
(* [columns, rows]; pd.DataFrame() is the frame with no column and no row. *)
(***************************************************************************)
EXTENDS Integers, Sequences, FiniteSets, TLC

VARIABLES
    books_df,       \* the loaded catalog: a sequence of rows
    pc,             \* "ready" / "done" for a single call, "shell" for main()
    fuse_call,      \* the last call of fuse_neighbors_streamlit: [called, query_book_id, k]
    fuse_ret,       \* what that call returned: a frame
    search_call,    \* the last call of search_books_streamlit: [called, title_query_str, top_n]
    search_ret,     \* how that call ended: [kind, value]
    openConns,      \* sqlite connections opened by a search and not closed
    title_query,    \* the text box's content (widget key "title_query")
    session_state,  \* st.session_state: search_results, selected_book_id, selected_book_title
    cache,          \* st.cache_data's entries for search_books_streamlit
    button,         \* st.button's value in the last run of the script
    ui              \* the messages the last run of the script put on the page

vars == <<books_df, pc, fuse_call, fuse_ret, search_call, search_ret,
          openConns, title_query, session_state, cache, button, ui>>

(***************************************************************************)
(* Bounds of the model.                                                    *)
(***************************************************************************)
\* book ids of the enumerated catalogs are 1..NumIds
NumIds == 3
\* longest enumerated neighbour list
MaxList == 2
\* largest k / top_n handed to a single call
MaxK == 3
\* longest enumerated query text
MaxQueryLen == 4
\* connections the shell may leave open before the model stops searching
MaxOpenConns == 2

(***************************************************************************)
(* Sequences.                                                              *)
(***************************************************************************)
Min(a, b) == IF a <= b THEN a ELSE b

Range(s) == {s[i] : i \in 1..Len(s)}

Take(s, n) == SubSeq(s, 1, Min(n, Len(s)))

SeqsUpTo(S, n) == UNION {[1..m -> S] : m \in 0..n}

NoDuplicates(s) == \A i, j \in 1..Len(s) : s[i] = s[j] => i = j

(***************************************************************************)
(* The catalog.                                                            *)
(***************************************************************************)
\* session_state.selected_book_id = None
None == 0

Ids == 1..NumIds

Row(id, title, rating, count, desc, shelf) ==
    [book_id |-> id, title |-> title, average_rating |-> rating,
     ratings_count |-> count,
     top_desc_neighbors_ids |-> desc, top_shelf_neighbors_ids |-> shelf]

CatalogIds(df) == {df[i].book_id : i \in 1..Len(df)}

\* books_df[books_df['book_id'] == id]
RowsWithId(df, id) == SelectSeq(df, LAMBDA r : r.book_id = id)

(***************************************************************************)
(* fuse_neighbors_streamlit.                                               *)
(***************************************************************************)
Description == "Source: Description"

PopularShelves == "Source: Popular Shelves"

EmptyFrame == [columns |-> <<>>, rows |-> <<>>]

FusedColumns == <<"title", "average_rating", "ratings_count", "book_id", "source">>

EmptyFill == [ids |-> <<>>, sources |-> <<>>, added |-> {}]

\* One tier's loop from position i on: an id not yet added is appended with
\* the tier's tag, and the loop breaks once k ids are held.
RECURSIVE FillTier(_, _, _, _, _)
RECURSIVE FillTierNoSeen(_, _, _, _, _)
FillTierNoSeen(list, tag, k, i, st) ==
    IF i > Len(list) THEN st
    ELSE LET bid == list[i]
             st2 == [ids |-> Append(st.ids, bid),
                     sources |-> Append(st.sources, tag),
                     added |-> st.added \cup {bid}]
         IN  IF Len(st2.ids) >= k THEN st2
             ELSE FillTierNoSeen(list, tag, k, i + 1, st2)

FillTier(list, tag, k, i, st) ==
    IF i > Len(list) THEN st
    ELSE LET bid == list[i]
         IN  IF bid \notin st.added
             THEN LET st2 == [ids |-> Append(st.ids, bid),
                              sources |-> Append(st.sources, tag),
                              added |-> st.added \cup {bid}]
                  IN  IF Len(st2.ids) >= k THEN st2
                      ELSE FillTier(list, tag, k, i + 1, st2)
             ELSE FillTier(list, tag, k, i + 1, st)

\* Tier 1 from the description list, then tier 2 from the shelf list only
\* while fewer than k ids are held.
FillTiersDescOnly(row, k) ==
    FillTier(row.top_desc_neighbors_ids, Description, k, 1, EmptyFill)

FillTiers(row, k) ==
    LET t1 == FillTier(row.top_desc_neighbors_ids, Description, k, 1, EmptyFill)
    IN  IF Len(t1.ids) < k
        THEN FillTier(row.top_shelf_neighbors_ids, PopularShelves, k, 1, t1)
        ELSE t1

\* rank_map / source_map: the position of bid in the filled ids
RankOf(ids, bid) == CHOOSE i \in 1..Len(ids) : ids[i] = bid

\* sort_values("_rank"): insertion into a sequence kept sorted by rank
RECURSIVE SortByRank(_, _)
SortByRank(rows, ids) ==
    IF rows = <<>> THEN <<>>
    ELSE LET r == rows[Len(rows)]
             sorted == SortByRank(SubSeq(rows, 1, Len(rows) - 1), ids)
             before == SelectSeq(sorted,
                          LAMBDA x : RankOf(ids, x.book_id) <= RankOf(ids, r.book_id))
             after == SelectSeq(sorted,
                          LAMBDA x : RankOf(ids, x.book_id) > RankOf(ids, r.book_id))
         IN  before \o <<r>> \o after

HydrateCatalogOrder(df, fill) ==
    LET matched == SelectSeq(df, LAMBDA r : r.book_id \in Range(fill.ids))
    IN  [columns |-> FusedColumns,
         rows |-> [i \in 1..Len(matched) |->
                     [title |-> matched[i].title,
                      average_rating |-> matched[i].average_rating,
                      ratings_count |-> matched[i].ratings_count,
                      book_id |-> matched[i].book_id,
                      source |-> fill.sources[RankOf(fill.ids, matched[i].book_id)]]]]

\* The catalog rows whose id was filled, sorted by fill rank, with the tag
\* the id received; an id with no catalog row yields no row.
Hydrate(df, fill) ==
    LET matched == SelectSeq(df, LAMBDA r : r.book_id \in Range(fill.ids))
        ranked == SortByRank(matched, fill.ids)
    IN  [columns |-> FusedColumns,
         rows |-> [i \in 1..Len(ranked) |->
                     [title |-> ranked[i].title,
                      average_rating |-> ranked[i].average_rating,
                      ratings_count |-> ranked[i].ratings_count,
                      book_id |-> ranked[i].book_id,
                      source |-> fill.sources[RankOf(fill.ids, ranked[i].book_id)]]]]

\* The call's result: the frame returned and whether st.warning was shown.
fuse_neighbors_streamlit(df, query_book_id, k) ==
    LET query_book_row == RowsWithId(df, query_book_id)
    IN  IF query_book_row = <<>>
        THEN [frame |-> EmptyFrame, warning |-> TRUE]
        ELSE LET fill == FillTiers(query_book_row[1], k)
             IN  IF fill.ids = <<>>
                 THEN [frame |-> EmptyFrame, warning |-> FALSE]
                 ELSE [frame |-> Hydrate(df, fill), warning |-> FALSE]

(***************************************************************************)
(* search_books_streamlit: the FTS5 phrase search.                         *)
(***************************************************************************)
Quote == "\""

Space == " "

Letters == {"a", "b"}

Chars == Letters \cup {Space, Quote}

\* fts5_query_str = f'"{title_query_str}"'
Fts5QueryStr(title_query_str) == <<Quote>> \o title_query_str \o <<Quote>>

\* The tokens of a text as the title index sees it: the maximal runs of
\* letters; every other character separates.
RECURSIVE TokenizeFrom(_, _, _, _)
TokenizeFrom(text, i, cur, out) ==
    IF i > Len(text)
    THEN IF cur = <<>> THEN out ELSE Append(out, cur)
    ELSE IF text[i] \in Letters
         THEN TokenizeFrom(text, i + 1, Append(cur, text[i]), out)
         ELSE TokenizeFrom(text, i + 1, <<>>, IF cur = <<>> THEN out ELSE Append(out, cur))

Tokenize(text) == TokenizeFrom(text, 1, <<>>, <<>>)

\* A string of a MATCH expression from the character after its opening
\* quote: two quotes in a row stand for one quote of the text, one quote
\* closes the string, and the end of the expression leaves it unterminated.
RECURSIVE ScanString(_, _, _)
ScanString(expr, j, acc) ==
    IF j > Len(expr) THEN [ok |-> FALSE, next |-> j, text |-> acc]
    ELSE IF expr[j] = Quote
         THEN IF j + 1 <= Len(expr) /\ expr[j + 1] = Quote
              THEN ScanString(expr, j + 2, Append(acc, Quote))
              ELSE [ok |-> TRUE, next |-> j + 1, text |-> acc]
         ELSE ScanString(expr, j + 1, Append(acc, expr[j]))

\* A bareword of a MATCH expression: a maximal run of letters.
RECURSIVE ScanBareword(_, _, _)
ScanBareword(expr, j, acc) ==
    IF j <= Len(expr) /\ expr[j] \in Letters
    THEN ScanBareword(expr, j + 1, Append(acc, expr[j]))
    ELSE [ok |-> TRUE, next |-> j, text |-> acc]

\* The phrases of a MATCH expression over Chars: strings and barewords,
\* joined by an implicit AND; ok is FALSE for a malformed expression.
RECURSIVE Fts5Parse(_, _, _)
Fts5Parse(expr, i, phrases) ==
    IF i > Len(expr) THEN [ok |-> TRUE, phrases |-> phrases]
    ELSE IF expr[i] = Space THEN Fts5Parse(expr, i + 1, phrases)
    ELSE LET tok == IF expr[i] = Quote
                    THEN ScanString(expr, i + 1, <<>>)
                    ELSE ScanBareword(expr, i, <<>>)
         IN  IF tok.ok
             THEN Fts5Parse(expr, tok.next, Append(phrases, tok.text))
             ELSE [ok |-> FALSE, phrases |-> phrases]

\* the tokens of `phrase` occur in a row in the tokens of `title`
PhraseIn(phrase, title) ==
    LET p == Tokenize(phrase)
        t == Tokenize(title)
    IN  \E off \in 0..(Len(t) - Len(p)) : \A n \in 1..Len(p) : t[off + n] = p[n]

\* WHERE books_fts MATCH expr, for a well-formed expr: a phrase without a
\* token is dropped, the others must all occur, and an expression left
\* without a phrase matches nothing.
Fts5Match(phrases, title) ==
    LET terms == SelectSeq(phrases, LAMBDA p : Tokenize(p) # <<>>)
    IN  /\ terms # <<>>
        /\ \A n \in 1..Len(terms) : PhraseIn(terms[n], title)

\* ORDER BY ratings_count DESC over the rows at the positions `hits`: every
\* order of them with non-increasing ratings_count (ties come in any order).
RatingOrders(df, hits) ==
    {o \in [1..Cardinality(hits) -> hits] :
        /\ \A i, j \in 1..Cardinality(hits) : o[i] = o[j] => i = j
        /\ \A i \in 1..(Cardinality(hits) - 1) :
             df[o[i]].ratings_count >= df[o[i + 1]].ratings_count}

\* (book_id, title, ratings_count, average_rating) of the rows at positions o
Candidates(df, o) ==
    [i \in 1..Len(o) |->
        <<df[o[i]].book_id, df[o[i]].title, df[o[i]].ratings_count,
          df[o[i]].average_rating>>]

(***************************************************************************)
(* search_books_streamlit: the fuzzy fallback.                             *)
(***************************************************************************)
\* longest common subsequence of the first m characters of x and the first
\* n of y
RECURSIVE LcsLen(_, _, _, _)
LcsLen(x, y, m, n) ==
    IF m = 0 \/ n = 0 THEN 0
    ELSE IF x[m] = y[n] THEN 1 + LcsLen(x, y, m - 1, n - 1)
    ELSE LET a == LcsLen(x, y, m - 1, n)
             b == LcsLen(x, y, m, n - 1)
         IN  IF a >= b THEN a ELSE b

\* The similarity of query and choice as the fraction num / den: twice the
\* common subsequence over the two lengths, and 0 when either is empty.
Similarity(query, choice) ==
    IF query = <<>> \/ choice = <<>> THEN [num |-> 0, den |-> 1]
    ELSE [num |-> 2 * LcsLen(query, choice, Len(query), Len(choice)),
          den |-> Len(query) + Len(choice)]

\* process.extract(query, choices, limit): the choices in descending
\* similarity, equal scores in the order of the choices, cut to limit.
Extract(query, choices, limit) ==
    LET score(i) == Similarity(query, choices[i])
        before(i, j) ==
            \/ score(i).num * score(j).den > score(j).num * score(i).den
            \/ /\ score(i).num * score(j).den = score(j).num * score(i).den
               /\ i < j
        place(i) == 1 + Cardinality({j \in 1..Len(choices) : before(j, i)})
        ranked == [r \in 1..Len(choices) |->
                     choices[CHOOSE i \in 1..Len(choices) : place(i) = r]]
    IN  Take(ranked, limit)

(***************************************************************************)
(* search_books_streamlit: the body.  A call ends in one of the outcomes   *)
(* [kind, value, closed]: it returned value or raised, and closed tells    *)
(* whether conn.close() ran.                                               *)
(***************************************************************************)
FuzzyOutcomes(df, title_query_str, top_n) ==
    LET all_titles == [i \in 1..Len(df) |-> df[i].title]
        matched_titles == Extract(title_query_str, all_titles, top_n)
        hits == {i \in 1..Len(df) : df[i].title \in Range(matched_titles)}
    IN  {[kind |-> "returned", value |-> Take(Candidates(df, o), top_n), closed |-> TRUE] :
            o \in RatingOrders(df, hits)}

search_books_streamlit(df, title_query_str, top_n) ==
    LET parsed == Fts5Parse(Fts5QueryStr(title_query_str), 1, <<>>)
        hits == {i \in 1..Len(df) : Fts5Match(parsed.phrases, df[i].title)}
        fts_results == {Take(Candidates(df, o), top_n) : o \in RatingOrders(df, hits)}
    IN  IF ~parsed.ok
        THEN {[kind |-> "raised", value |-> <<>>, closed |-> FALSE]}
        ELSE UNION {IF formatted_results # <<>>
                    THEN {[kind |-> "returned", value |-> formatted_results,
                           closed |-> FALSE]}
                    ELSE FuzzyOutcomes(df, title_query_str, top_n) :
                        formatted_results \in fts_results}

(***************************************************************************)
(* Catalogs and calls enumerated for a single call of                      *)
(* fuse_neighbors_streamlit.                                               *)
(***************************************************************************)
TitleA == <<"a">>

\* an id that no enumerated catalog holds
MissingId == NumIds + 1

NeighbourLists == SeqsUpTo(Ids \cup {MissingId}, MaxList)

\* The catalog holding the ids of `present` in ascending order; book `focus`
\* has the neighbour lists desc and shelf, every other book lists itself and
\* focus.
FuseCatalog(present, focus, desc, shelf) ==
    LET all == [i \in Ids |->
                  IF i = focus
                  THEN Row(i, TitleA, 4, i, desc, shelf)
                  ELSE Row(i, TitleA, 4, i, <<i>>, <<focus>>)]
    IN  SelectSeq(all, LAMBDA r : r.book_id \in present)

\* Book 1 (A) with description neighbours [B, C] and shelf neighbours
\* [C, D, E]; B..E are books 2..5.
ScenarioCatalog ==
    [i \in 1..5 |->
        IF i = 1 THEN Row(1, TitleA, 4, 1, <<2, 3>>, <<3, 4, 5>>)
        ELSE Row(i, TitleA, 4, i, <<>>, <<>>)]

NoCall == [called |-> FALSE, query_book_id |-> None, k |-> 0]

NoSearch == [called |-> FALSE, title_query_str |-> <<>>, top_n |-> 0]

NoSearchRet == [kind |-> "none", value |-> <<>>]

NoSession ==
    [search_results |-> <<>>, selected_book_id |-> None, selected_book_title |-> <<>>]

NoFuseRet == [frame |-> EmptyFrame, warning |-> FALSE]

SearchIdle ==
    /\ search_call = NoSearch
    /\ search_ret = NoSearchRet
    /\ openConns = 0

ShellIdle ==
    /\ title_query = <<>>
    /\ session_state = NoSession
    /\ cache = {}
    /\ button = FALSE
    /\ ui = {}

InitFuse ==
    /\ pc = "ready"
    /\ fuse_ret = NoFuseRet
    /\ SearchIdle
    /\ ShellIdle
    /\ \/ \E q \in Ids, k \in 0..MaxK, desc \in NeighbourLists, shelf \in NeighbourLists :
            /\ books_df = FuseCatalog(Ids, q, desc, shelf)
            /\ fuse_call = [called |-> FALSE, query_book_id |-> q, k |-> k]
       \/ \E q \in Ids, k \in 0..MaxK :
            /\ books_df = FuseCatalog(Ids \ {q}, q, <<>>, <<>>)
            /\ fuse_call = [called |-> FALSE, query_book_id |-> q, k |-> k]
       \/ \E k \in 0..MaxK :
            /\ books_df = ScenarioCatalog
            /\ fuse_call = [called |-> FALSE, query_book_id |-> 1, k |-> k]

\* fuse_neighbors_streamlit(query_book_id, k) runs against books_df.
CallFuse ==
    /\ pc = "ready"
    /\ ~fuse_call.called
    /\ LET r == fuse_neighbors_streamlit(books_df, fuse_call.query_book_id, fuse_call.k)
       IN  /\ fuse_ret' = r
           /\ ui' = IF r.warning THEN {"fuse: book id not found"} ELSE {}
    /\ fuse_call' = [fuse_call EXCEPT !.called = TRUE]
    /\ pc' = "done"
    /\ UNCHANGED <<books_df, search_call, search_ret, openConns, title_query,
                   session_state, cache, button>>

NextFuse == CallFuse

SpecFuse == InitFuse /\ [][NextFuse]_vars

(***************************************************************************)
(* Catalogs and calls enumerated for a single call of                      *)
(* search_books_streamlit.                                                 *)
(***************************************************************************)
\* Two books share the title "a b", books 1 and 2 share a ratings_count,
\* and book 4 lists a neighbour that no catalog holds.
SearchPool ==
    << Row(1, <<"a", " ", "b">>, 4, 2, <<2, 3>>, <<3, 4>>),
       Row(2, <<"b", " ", "a">>, 3, 2, <<1>>, <<>>),
       Row(3, <<"a">>, 5, 1, <<>>, <<>>),
       Row(4, <<"a", " ", "b">>, 2, 3, <<9, 3>>, <<1, 1>>) >>

SearchCatalogs ==
    {SelectSeq(SearchPool, LAMBDA r : r.book_id \in S) : S \in SUBSET (1..Len(SearchPool))}

InitSearch ==
    /\ pc = "ready"
    /\ books_df \in SearchCatalogs
    /\ \E q \in SeqsUpTo(Chars, MaxQueryLen), n \in 0..MaxK :
          search_call = [called |-> FALSE, title_query_str |-> q, top_n |-> n]
    /\ search_ret = NoSearchRet
    /\ openConns = 0
    /\ fuse_call = NoCall
    /\ fuse_ret = NoFuseRet
    /\ ShellIdle

\* search_books_streamlit(title_query_str, conn_path, books_df, top_n) runs:
\* it opens a connection and ends in one of its outcomes.
CallSearch ==
    /\ pc = "ready"
    /\ ~search_call.called
    /\ \E o \in search_books_streamlit(books_df, search_call.title_query_str,
                                       search_call.top_n) :
          /\ search_ret' = [kind |-> o.kind, value |-> o.value]
          /\ openConns' = IF o.closed THEN openConns ELSE openConns + 1
    /\ search_call' = [search_call EXCEPT !.called = TRUE]
    /\ pc' = "done"
    /\ UNCHANGED <<books_df, fuse_call, fuse_ret, title_query, session_state,
                   cache, button, ui>>

NextSearch == CallSearch

SpecSearch == InitSearch /\ [][NextSearch]_vars

(***************************************************************************)
(* Properties of the search.                                               *)
(***************************************************************************)
SearchDone == pc = "done" /\ search_call.called

NonIncreasing(value) ==
    \A i \in 1..(Len(value) - 1) : value[i][3] >= value[i + 1][3]

\* value holds the n most-rated of the rows at the positions `hits`
MostRated(df, value, hits, n) ==
    LET used == {i \in hits : \E j \in 1..Len(value) : value[j] = Candidates(df, <<i>>)[1]}
    IN  /\ Len(value) = Min(n, Cardinality(hits))
        /\ NoDuplicates(value)
        /\ \A j \in 1..Len(value) : \E i \in hits : value[j] = Candidates(df, <<i>>)[1]
        /\ NonIncreasing(value)
        /\ \A i \in hits \ used, u \in used : df[i].ratings_count <= df[u].ratings_count

\* the positions of the titles that hold the whole query as one phrase
PhraseHits(df, query) ==
    {i \in 1..Len(df) : Tokenize(query) # <<>> /\ PhraseIn(query, df[i].title)}

\* the sets of n titles (positions) closest to the query
TopSimilar(df, query, n) ==
    {P \in SUBSET (1..Len(df)) :
        /\ Cardinality(P) = Min(n, Len(df))
        /\ \A i \in P, j \in (1..Len(df)) \ P :
             LET a == Similarity(query, df[i].title)
                 b == Similarity(query, df[j].title)
             IN  a.num * b.den >= b.num * a.den}

\* the two-phase policy for the call made
ResolvePolicy ==
    LET q == search_call.title_query_str
        n == search_call.top_n
        value == search_ret.value
    IN  /\ search_ret.kind = "returned"
        /\ Len(value) <= n
        /\ NonIncreasing(value)
        /\ IF PhraseHits(books_df, q) # {}
           THEN MostRated(books_df, value, PhraseHits(books_df, q), n)
           ELSE \E P \in TopSimilar(books_df, q, n) :
                   MostRated(books_df, value,
                             {i \in 1..Len(books_df) :
                                 \E p \in P : books_df[i].title = books_df[p].title},
                             n)

\* C6: for every query and limit k the call returns at most k candidates in
\* non-increasing ratings_count order: the k most-rated phrase matches when
\* the phrase search has a match, and otherwise the k most-rated records
\* whose title is among the k titles closest to the query.
C6_TwoPhaseResolve == SearchDone => ResolvePolicy

\* The policy of C6 for the queries that hold no double quote.
ResolvePolicyQuoteFree ==
    (SearchDone /\ Quote \notin Range(search_call.title_query_str)) => ResolvePolicy

\* C7: for every query the MATCH expression built is one literal phrase
\* whose content is the whole query, and the search does not reject it.
C7_QueryIsOneLiteralPhrase ==
    SearchDone
    => LET parsed == Fts5Parse(Fts5QueryStr(search_call.title_query_str), 1, <<>>)
       IN  /\ search_ret.kind # "raised"
           /\ parsed.ok
           /\ parsed.phrases = <<search_call.title_query_str>>

\* C10: a call that returns has closed the connection it opened.
C10_ConnectionClosedOnReturn ==
    (SearchDone /\ search_ret.kind = "returned") => openConns = 0

(***************************************************************************)
(* Properties of the fusion.                                               *)
(***************************************************************************)
FuseDone == pc = "done" /\ fuse_call.called

QueryRow == RowsWithId(books_df, fuse_call.query_book_id)[1]

QueryInCatalog == fuse_call.query_book_id \in CatalogIds(books_df)

UniqueIds(df) == \A i, j \in 1..Len(df) : df[i].book_id = df[j].book_id => i = j

AllResolve(df) ==
    \A i \in 1..Len(df) :
        Range(df[i].top_desc_neighbors_ids) \cup Range(df[i].top_shelf_neighbors_ids)
            \subseteq CatalogIds(df)

\* the (id, source) pairs of a frame's rows, in order
Tagged(rows) == [i \in 1..Len(rows) |-> <<rows[i].book_id, rows[i].source>>]

\* s without the repeats of an element after its first occurrence
FirstOccurrences(s) ==
    LET keep == {i \in 1..Len(s) : \A j \in 1..(i - 1) : s[j] # s[i]}
        nth(n) == CHOOSE i \in keep : Cardinality({j \in keep : j < i}) = n - 1
    IN  [n \in 1..Cardinality(keep) |-> s[nth(n)]]

\* The description neighbours without repeats, tagged Description, then the
\* shelf neighbours without repeats that are no description neighbour,
\* tagged PopularShelves.
FillOrder(row) ==
    LET d == FirstOccurrences(row.top_desc_neighbors_ids)
        s == SelectSeq(FirstOccurrences(row.top_shelf_neighbors_ids),
                       LAMBDA x : x \notin Range(row.top_desc_neighbors_ids))
    IN  [i \in 1..Len(d) |-> <<d[i], Description>>]
            \o [i \in 1..Len(s) |-> <<s[i], PopularShelves>>]

UnionCount(row) ==
    Cardinality(Range(row.top_desc_neighbors_ids) \cup Range(row.top_shelf_neighbors_ids))

\* C1: in a catalog with unique ids whose neighbour ids all resolve, for a
\* book of the catalog and k > 0 the rows returned are, in order, the first k
\* elements of FillOrder; every Description row precedes every
\* PopularShelves row and no description neighbour is tagged PopularShelves.
C1_FillOrderPrefix ==
    (FuseDone /\ QueryInCatalog /\ UniqueIds(books_df) /\ AllResolve(books_df)
        /\ fuse_call.k > 0)
    => LET rows == fuse_ret.frame.rows
       IN  /\ Tagged(rows) = Take(FillOrder(QueryRow), fuse_call.k)
           /\ \A i, j \in 1..Len(rows) :
                (rows[i].source = Description /\ rows[j].source = PopularShelves)
                    => i < j
           /\ \A i \in 1..Len(rows) :
                rows[i].book_id \in Range(QueryRow.top_desc_neighbors_ids)
                    => rows[i].source = Description

\* fuse(A, 3) of the scenario is [B(Description), C(Description), D(PopularShelves)]
C1_Witness ==
    /\ FuseDone
    /\ books_df = ScenarioCatalog
    /\ fuse_call.query_book_id = 1
    /\ fuse_call.k = 3
    /\ Tagged(fuse_ret.frame.rows)
         = <<<<2, Description>>, <<3, Description>>, <<4, PopularShelves>>>>

\* C2: for every k >= 0 the call returns at most k rows and no book id twice.
C2_AtMostKNoDuplicates ==
    FuseDone
    => /\ Len(fuse_ret.frame.rows) <= fuse_call.k
       /\ NoDuplicates([i \in 1..Len(fuse_ret.frame.rows) |->
                           fuse_ret.frame.rows[i].book_id])

\* C3 as stated, for the k > 0 of the contract: for a book of the catalog,
\* if its two lists hold at least k distinct ids, exactly k rows are
\* returned.
C3_ExactlyKOriginal ==
    (FuseDone /\ QueryInCatalog /\ fuse_call.k > 0
        /\ UnionCount(QueryRow) >= fuse_call.k)
    => Len(fuse_ret.frame.rows) = fuse_call.k

\* C3 amended: for a book of the catalog whose neighbour ids all resolve, if
\* its two lists hold at least k distinct ids, exactly k rows are returned
\* when k >= 1; for k = 0 one row is returned when the description list is
\* not empty, and none otherwise.
C3_ExactlyKAmended ==
    (FuseDone /\ QueryInCatalog /\ UnionCount(QueryRow) >= fuse_call.k
        /\ Range(QueryRow.top_desc_neighbors_ids)
             \cup Range(QueryRow.top_shelf_neighbors_ids) \subseteq CatalogIds(books_df))
    => Len(fuse_ret.frame.rows)
         = IF fuse_call.k >= 1 THEN fuse_call.k
           ELSE IF QueryRow.top_desc_neighbors_ids # <<>> THEN 1 ELSE 0

\* both tiers contribute and the shelf tier is cut at k
C3_Witness ==
    /\ FuseDone
    /\ QueryInCatalog
    /\ fuse_call.k = 2
    /\ UnionCount(QueryRow) > 2
    /\ Len(fuse_ret.frame.rows) = 2
    /\ fuse_ret.frame.rows[1].source = Description
    /\ fuse_ret.frame.rows[2].source = PopularShelves

\* C4: for an id absent from the catalog the call returns an empty frame
\* that carries a not-found reason, so that what is returned differs from
\* what is returned for a book of the catalog with no neighbours.
C4_NotFoundDistinguishable ==
    (FuseDone /\ ~QueryInCatalog)
    => /\ fuse_ret.frame.rows = <<>>
       /\ fuse_ret.frame
            # fuse_neighbors_streamlit(
                 <<Row(fuse_call.query_book_id, TitleA, 4, 1, <<>>, <<>>)>>,
                 fuse_call.query_book_id, fuse_call.k).frame

\* C5: when filled ids have no catalog row the call returns the rows of the
\* filled ids that have one, in fill order, each with the tag of its fill.
C5_SkipsUnresolved ==
    (FuseDone /\ QueryInCatalog)
    => LET fill == FillTiers(QueryRow, fuse_call.k)
           pairs == [i \in 1..Len(fill.ids) |-> <<fill.ids[i], fill.sources[i]>>]
       IN  /\ Tagged(fuse_ret.frame.rows)
                = SelectSeq(pairs, LAMBDA p : p[1] \in CatalogIds(books_df))
           /\ \A i \in 1..Len(fuse_ret.frame.rows) :
                \E j \in 1..Len(books_df) :
                    /\ books_df[j].book_id = fuse_ret.frame.rows[i].book_id
                    /\ books_df[j].title = fuse_ret.frame.rows[i].title
                    /\ books_df[j].ratings_count = fuse_ret.frame.rows[i].ratings_count

\* an unresolvable id was filled between two resolvable ones
C5_Witness ==
    /\ FuseDone
    /\ QueryInCatalog
    /\ LET fill == FillTiers(QueryRow, fuse_call.k)
       IN  /\ Len(fill.ids) = 3
           /\ fill.ids[1] \in CatalogIds(books_df)
           /\ fill.ids[2] \notin CatalogIds(books_df)
           /\ fill.ids[3] \in CatalogIds(books_df)
    /\ Len(fuse_ret.frame.rows) = 2

(***************************************************************************)
(* main(): one run of the script per interaction.                          *)
(***************************************************************************)
\* top_n of the search main() makes
SearchTopN == 5

\* k of the fusion main() makes
FuseK == 10

\* the texts the user types into the box
ShellQueries ==
    { <<>>, <<Space>>, <<"a">>, <<"b", Space, "a">>, <<"a", Quote>>,
      <<"b", Quote, Space, Quote, "a">> }

\* the book ids of the stored candidates
OptionIdsWrongColumn(results) == [i \in 1..Len(results) |-> results[i][3]]

OptionIds(results) == [i \in 1..Len(results) |-> results[i][1]]

\* st.selectbox over options with index = default_index: the option at the
\* index the widget holds (pick, when it is an index of the options), else
\* the option at default_index, which is the index of selected_book_id
\* among the options when it is one of them and the first option otherwise.
SelectboxValue(options, selected_book_id, pick) ==
    LET default_index ==
            IF selected_book_id \in Range(options)
            THEN CHOOSE i \in 1..Len(options) :
                    /\ options[i] = selected_book_id
                    /\ \A j \in 1..(i - 1) : options[j] # selected_book_id
            ELSE 1
    IN  IF pick \in 1..Len(options) THEN options[pick] ELSE options[default_index]

\* The cached call of search_books_streamlit: a stored entry for the query
\* is returned without running the body; otherwise the body runs and what
\* it returns is stored.  An outcome tells whether the body ran.
CachedSearchOutcomes(title_query_str) ==
    IF \E e \in cache : e[1] = title_query_str
    THEN {[kind |-> "returned", value |-> e[2], closed |-> TRUE, ran |-> FALSE] :
            e \in {e \in cache : e[1] = title_query_str}}
    ELSE {[kind |-> o.kind, value |-> o.value, closed |-> o.closed, ran |-> TRUE] :
            o \in search_books_streamlit(books_df, title_query_str, SearchTopN)}

\* The section that shows the matches and the recommendations, entered with
\* the session state st and the messages shown so far.
SelectionSection(st, msgs, pick) ==
    IF st.search_results = <<>>
    THEN /\ session_state' = st
         /\ fuse_call' = NoCall
         /\ fuse_ret' = NoFuseRet
         /\ ui' = msgs
    ELSE LET options == OptionIds(st.search_results)
             selected_book_id_from_selectbox ==
                 SelectboxValue(options, st.selected_book_id, pick)
             rows == RowsWithId(books_df, selected_book_id_from_selectbox)
         IN  IF rows = <<>>
             THEN \* .iloc[0] of an empty frame raises: the run ends here
                  /\ session_state' = st
                  /\ fuse_call' = NoCall
                  /\ fuse_ret' = NoFuseRet
                  /\ ui' = msgs \cup {"exception"}
             ELSE LET r == fuse_neighbors_streamlit(books_df, rows[1].book_id, FuseK)
                  IN  /\ session_state' = [st EXCEPT
                                             !.selected_book_id = rows[1].book_id,
                                             !.selected_book_title = rows[1].title]
                      /\ fuse_call' = [called |-> TRUE,
                                       query_book_id |-> rows[1].book_id, k |-> FuseK]
                      /\ fuse_ret' = r
                      /\ ui' = msgs
                                \cup (IF r.warning THEN {"fuse: book id not found"} ELSE {})
                                \cup (IF r.frame.rows # <<>>
                                      THEN {"Recommended Books"}
                                      ELSE {"No recommendations found"})

\* One run of main() with the box holding title_query', the button's value
\* pressed and the index pick held by the select box (0: none).
Run(pressed, pick) ==
    LET search_title == title_query'
    IN  /\ button' = pressed
        /\ IF pressed /\ search_title # <<>>
           THEN \E o \in CachedSearchOutcomes(search_title) :
                  /\ search_call' = [called |-> TRUE, title_query_str |-> search_title,
                                     top_n |-> SearchTopN]
                  /\ search_ret' = [kind |-> o.kind, value |-> o.value]
                  /\ openConns' = IF o.ran /\ ~o.closed THEN openConns + 1 ELSE openConns
                  /\ IF o.kind = "raised"
                     THEN \* the exception ends the run before the session is touched
                          /\ cache' = cache
                          /\ session_state' = session_state
                          /\ fuse_call' = NoCall
                          /\ fuse_ret' = NoFuseRet
                          /\ ui' = {"exception"}
                     ELSE /\ cache' = cache \cup {<<search_title, o.value>>}
                          /\ SelectionSection(
                                [search_results |-> o.value, selected_book_id |-> None,
                                 selected_book_title |-> <<>>],
                                IF o.value = <<>> THEN {"No books found"} ELSE {},
                                pick)
           ELSE /\ search_call' = NoSearch
                /\ search_ret' = NoSearchRet
                /\ UNCHANGED <<openConns, cache>>
                /\ SelectionSection(session_state,
                                    IF pressed THEN {"Please enter a book title"} ELSE {},
                                    pick)

Init ==
    /\ pc = "shell"
    /\ books_df \in SearchCatalogs
    /\ fuse_call = NoCall
    /\ fuse_ret = NoFuseRet
    /\ SearchIdle
    /\ ShellIdle

\* The user commits another text in the box: the script reruns.
EditQuery ==
    /\ pc = "shell"
    /\ \E q \in ShellQueries \ {title_query} : title_query' = q
    /\ Run(FALSE, 0)
    /\ UNCHANGED <<books_df, pc>>

\* The user presses "Get Recommendations": the script reruns with the button
\* set; the select box may still hold the index picked among the candidates
\* of the search before.
PressButton ==
    /\ pc = "shell"
    /\ openConns < MaxOpenConns
    /\ title_query' = title_query
    /\ \E pick \in 0..Len(session_state.search_results) : Run(TRUE, pick)
    /\ UNCHANGED <<books_df, pc>>

\* The user picks a match in the select box: the script reruns.
SelectBook ==
    /\ pc = "shell"
    /\ title_query' = title_query
    /\ \E pick \in 1..Len(session_state.search_results) : Run(FALSE, pick)
    /\ UNCHANGED <<books_df, pc>>

Next == EditQuery \/ PressButton \/ SelectBook

Spec == Init /\ [][Next]_vars

(***************************************************************************)
(* Properties of the shell.                                                *)
(***************************************************************************)
Blank(text) == \A i \in 1..Len(text) : text[i] = Space

\* C8: a search triggered with an empty or whitespace-only query does not
\* call search_books_streamlit; the user is prompted for a title instead.
C8_BlankQueryNotSearched ==
    (pc = "shell" /\ button /\ Blank(title_query))
    => /\ ~search_call.called
       /\ "Please enter a book title" \in ui

\* C9: at the end of every run selected_book_id is None or the id of a
\* stored candidate, the fusion is called only with the id of a stored
\* candidate, and a search that returned no candidate leaves the selection
\* None.
C9_SelectionAmongCandidates ==
    pc = "shell"
    => LET ids == {session_state.search_results[i][1] :
                      i \in 1..Len(session_state.search_results)}
       IN  /\ session_state.selected_book_id = None
              \/ session_state.selected_book_id \in ids
           /\ fuse_call.called => fuse_call.query_book_id \in ids
           /\ (search_call.called /\ search_ret.kind = "returned"
                   /\ search_ret.value = <<>>)
                => session_state.selected_book_id = None

\* after an earlier selection a new search has replaced the candidates, and
\* the selection and the fusion follow the new candidates
C9_Witness ==
    /\ pc = "shell"
    /\ button
    /\ search_call.called
    /\ search_ret.kind = "returned"
    /\ cache # {}
    /\ \E e \in cache :
          /\ e[2] # session_state.search_results
          /\ e[2] # <<>>
    /\ fuse_call.called
    /\ session_state.selected_book_id = session_state.search_results[1][1]

====
